---- MODULE Spec2Model ----
(***************************************************************************)
(* Model of the tpQtLib bootstrapper (source/tpQtLib/__init__.py): the     *)
(* class tpQtLib with its registry loaded_modules, its reload queue        *)
(* reload_modules, and the operations initialize, create_logger,           *)
(* _explore_package, _import_module, import_modules and reload_all.        *)
(*                                                                         *)
(* Strings are sequences of one-character strings, so that ==, endswith    *)
(* and "in" are computed as Python computes them.                          *)
(***************************************************************************)
EXTENDS Integers, Sequences, FiniteSets, TLC

(***************************************************************************)
(* Bounds of the model.                                                    *)
(***************************************************************************)
\* number of entries the root directory holds at most
MaxEntries == 2
\* number of top-level calls (initialize / import_modules / reload_all) of a run
MaxCalls == 2
\* length of the hint lists and of the discovery lists the ordering is applied to
MaxHints == 2
MaxNames == 3

(***************************************************************************)
(* String helpers (Python str semantics).                                  *)
(***************************************************************************)
Min(a, b) == IF a < b THEN a ELSE b

\* n.endswith(o)
EndsWith(n, o) ==
    /\ Len(o) <= Len(n)
    /\ SubSeq(n, Len(n) - Len(o) + 1, Len(n)) = o

\* o in n
Contains(n, o) ==
    \E k \in 0 .. (Len(n) - Len(o)) : SubSeq(n, k + 1, k + Len(o)) = o

\* s.replace('\\', '.')
ReplaceBackslash(s) == [k \in 1 .. Len(s) |-> IF s[k] = "\\" THEN "." ELSE s[k]]

\* list.insert(index, x) for index >= 0: an index past the end appends
ListInsert(s, index, x) ==
    LET k == Min(index, Len(s))
    IN  SubSeq(s, 1, k) \o <<x>> \o SubSeq(s, k + 1, Len(s))

\* [x for x in s if not (x in seen or seen.add(x))]
RECURSIVE Dedup(_)
Dedup(s) ==
    IF s = <<>> THEN <<>>
    ELSE LET front == Dedup(SubSeq(s, 1, Len(s) - 1))
             x == s[Len(s)]
         IN  IF \E k \in 1 .. Len(front) : front[k] = x THEN front
             ELSE Append(front, x)

\* zip(a, b): pairs up to the shorter length
Zip(a, b) == [k \in 1 .. Min(Len(a), Len(b)) |-> [name |-> a[k], path |-> b[k]]]

SeqElems(s) == {s[k] : k \in 1 .. Len(s)}

(***************************************************************************)
(* File and package names of the modelled source tree.                     *)
(***************************************************************************)
tpQtLibStr == <<"t", "p", "Q", "t", "L", "i", "b">>
core == <<"c", "o", "r", "e">>
core_ext == <<"c", "o", "r", "e", "_", "e", "x", "t">>
widgets == <<"w", "i", "d", "g", "e", "t", "s">>
version == <<"v", "e", "r", "s", "i", "o", "n">>
message == <<"m", "e", "s", "s", "a", "g", "e">>

\* one result of pkgutil.iter_modules: (m_name, is_pkg)
Entry(m, p) == [m_name |-> m, is_pkg |-> p]

\* what the root directory may hold
RootPool == {Entry(core, TRUE), Entry(core_ext, TRUE), Entry(widgets, TRUE),
             Entry(version, FALSE)}

\* sequences without repetition over a set, up to a length
RECURSIVE DistinctSeqs(_, _)
DistinctSeqs(S, n) ==
    IF n = 0 THEN {<<>>}
    ELSE LET shorter == DistinctSeqs(S, n - 1)
         IN  shorter \cup UNION {{Append(t, x) : x \in S \ SeqElems(t)} :
                                    t \in {u \in shorter : Len(u) = n - 1}}

RootListings == DistinctSeqs(RootPool, MaxEntries)

VARIABLES
    platform,        \* "nt" or "posix": the separator os.path.relpath produces
    root_entries,    \* listing of tpQtLib.__path__[0] in discovery order
    logger,          \* module global logger: 0 is None, k is the k-th Logger instance
    loaded_modules,  \* OrderedDict: sequence of [name, dir, mod] with distinct names
    reload_modules,  \* list of module handles
    pc,              \* "idle", "import_modules" or "reload_all"
    op,              \* the running top-level call
    stack,           \* frames of the recursive import_modules calls
    ridx,            \* position of reload_all in reload_modules
    result,          \* how the last top-level call ended
    log,             \* what the running (or last) top-level call did, in order
    calls,           \* number of top-level calls started
    start_loaded,    \* loaded_modules when the running call started
    start_reload,    \* reload_modules when the running call started
    order_arg,       \* ordering on its own: the hint list (order)
    names_arg,       \* ordering on its own: the discovered names
    ordering,        \* ordering on its own: the lists import_modules builds
    res_call,        \* Resource.generate_resources_file: arguments, filesystem, outcome
    scr_call,        \* find_coordinates_inside_screen: arguments, monitors, result
    folder_btn,      \* a SelectFolderButton, its host and the signals it emitted
    theme,           \* a BaseMessage: its type, its icon and the calls made on it
    file_list        \* a FileListWidget: its items, selection, connections, signals

vars == <<platform, root_entries, logger, loaded_modules, reload_modules, pc, op,
          stack, ridx, result, log, calls, start_loaded, start_reload,
          order_arg, names_arg, ordering, res_call, scr_call, folder_btn, theme,
          file_list>>

(***************************************************************************)
(* The source tree: what pkgutil.iter_modules lists, and the attributes    *)
(* the modules of the tree define.                                         *)
(***************************************************************************)
\* a filesystem path: absolute below tpQtLib.__path__[0] (parts are the
\* components below the root), or a relative string that names no directory
DirPath(parts) == [abs |-> TRUE, parts |-> parts]
RootPath == DirPath(<<>>)
\* a qualified name used where a path is expected
NameAsPath(n) == [abs |-> FALSE, parts |-> <<n>>]

\* the entries of the directory root/parts, in discovery order
Children(parts) ==
    IF parts = <<>> THEN root_entries
    ELSE IF parts = <<widgets>> THEN <<Entry(message, FALSE)>>
    ELSE <<>>

\* pkgutil.iter_modules([path]): nothing for a path that is no directory
IterModules(path) == IF path.abs THEN Children(path.parts) ELSE <<>>

\* os.sep of the platform
OsSep == IF platform = "nt" THEN "\\" ELSE "/"

RECURSIVE JoinParts(_, _)
JoinParts(parts, sep) ==
    IF parts = <<>> THEN <<>>
    ELSE IF Len(parts) = 1 THEN parts[1]
    ELSE JoinParts(SubSeq(parts, 1, Len(parts) - 1), sep) \o <<sep>> \o parts[Len(parts)]

\* os.path.relpath(mod_path, tpQtLib.__path__[0])
RelPath(parts) == JoinParts(parts, OsSep)

\* 'tpQtLib.' + os.path.relpath(...).replace('\\', '.')
ModName(parts) == tpQtLibStr \o <<".">> \o ReplaceBackslash(RelPath(parts))

\* every file or package of the tree, as the components below the root
Nodes ==
    LET top == {<<root_entries[k].m_name>> : k \in 1 .. Len(root_entries)}
    IN  top \cup UNION {{Append(t, Children(t)[k].m_name) : k \in 1 .. Len(Children(t))} :
                         t \in top}

\* the module object importlib.import_module(name) returns: its __name__ and
\* os.path.dirname of its __file__ (the package directory for a package,
\* the parent directory for a plain module)
ModuleOf(name) ==
    LET parts == CHOOSE q \in Nodes : ModName(q) = name
        parent == SubSeq(parts, 1, Len(parts) - 1)
        entry == CHOOSE e \in SeqElems(Children(parent)) : e.m_name = parts[Len(parts)]
    IN  [name |-> name,
         dir |-> IF entry.is_pkg THEN DirPath(parts) ELSE DirPath(parent)]

\* hasattr(mod, 'order') and mod.order
HasOrder(mod) == mod.name = ModName(<<widgets>>)
ModOrder(mod) == <<message>>

\* hasattr(mod, 'no_reload')
HasNoReload(mod) == mod.name = ModName(<<core_ext>>)

(***************************************************************************)
(* _explore_package                                                        *)
(***************************************************************************)
\* _explore_package without the only_packages test of lines 67-69
ExplorePackage_IgnoreFlag(module_name, only_packages) ==
    LET entries == IterModules(module_name)
        mod_parts(k) == Append(module_name.parts, entries[k].m_name)
    IN  [names |-> [k \in 1 .. Len(entries) |-> ModName(mod_parts(k))],
         paths |-> [k \in 1 .. Len(entries) |-> DirPath(mod_parts(k))]]

ExplorePackage(module_name, only_packages) ==
    LET entries == IterModules(module_name)
        kept == SelectSeq(entries, LAMBDA e : IF only_packages THEN e.is_pkg ELSE TRUE)
        mod_parts(k) == Append(module_name.parts, kept[k].m_name)
    IN  [names |-> [k \in 1 .. Len(kept) |-> ModName(mod_parts(k))],
         paths |-> [k \in 1 .. Len(kept) |-> DirPath(mod_parts(k))]]

(***************************************************************************)
(* import_modules, lines 98-123: the ordered, deduplicated lists           *)
(***************************************************************************)
\* the inner loop body without the substring branch of lines 113-115
OrderStep_NoSubstring(st, o, n, p) ==
    IF n = o
    THEN [ordered_names |-> Append(st.ordered_names, n),
          ordered_paths |-> Append(st.ordered_paths, p),
          temp_index |-> st.i + 1,
          i |-> st.i + 1]
    ELSE IF EndsWith(n, o)
    THEN [ordered_names |-> ListInsert(st.ordered_names, st.temp_index + 1, n),
          ordered_paths |-> ListInsert(st.ordered_paths, st.temp_index + 1, NameAsPath(n)),
          temp_index |-> st.temp_index + 1,
          i |-> st.i]
    ELSE st

\* the inner loop body with the substring match of line 114 put at the front
OrderStep_SubstringFirst(st, o, n, p) ==
    IF n = o
    THEN [ordered_names |-> Append(st.ordered_names, n),
          ordered_paths |-> Append(st.ordered_paths, p),
          temp_index |-> st.i + 1,
          i |-> st.i + 1]
    ELSE IF EndsWith(n, o)
    THEN [ordered_names |-> ListInsert(st.ordered_names, st.temp_index + 1, n),
          ordered_paths |-> ListInsert(st.ordered_paths, st.temp_index + 1, NameAsPath(n)),
          temp_index |-> st.temp_index + 1,
          i |-> st.i]
    ELSE IF Contains(n, o)
    THEN [ordered_names |-> ListInsert(st.ordered_names, 0, n),
          ordered_paths |-> ListInsert(st.ordered_paths, 0, p),
          temp_index |-> st.temp_index,
          i |-> st.i]
    ELSE st

\* the body of the inner loop for hint o and discovered (n, p)
OrderStep(st, o, n, p) ==
    IF n = o
    THEN [ordered_names |-> Append(st.ordered_names, n),
          ordered_paths |-> Append(st.ordered_paths, p),
          temp_index |-> st.i + 1,
          i |-> st.i + 1]
    ELSE IF EndsWith(n, o)
    THEN [ordered_names |-> ListInsert(st.ordered_names, st.temp_index + 1, n),
          ordered_paths |-> ListInsert(st.ordered_paths, st.temp_index + 1, NameAsPath(n)),
          temp_index |-> st.temp_index + 1,
          i |-> st.i]
    ELSE IF Contains(n, o)
    THEN [ordered_names |-> Append(st.ordered_names, n),
          ordered_paths |-> Append(st.ordered_paths, p),
          temp_index |-> st.temp_index,
          i |-> st.i]
    ELSE st

RECURSIVE ScanNames(_, _, _, _, _)
ScanNames(st, o, names, paths, k) ==
    IF k > Len(names) THEN st
    ELSE ScanNames(OrderStep(st, o, names[k], paths[k]), o, names, paths, k + 1)

RECURSIVE ScanOrder(_, _, _, _, _)
ScanOrder(st, order, names, paths, h) ==
    IF h > Len(order) THEN st
    ELSE ScanOrder(ScanNames(st, order[h], names, paths, 1), order, names, paths, h + 1)

\* ordered_names and ordered_paths after the loops of lines 102-115
OrderedLists(order, names, paths) ==
    ScanOrder([ordered_names |-> <<>>, ordered_paths |-> <<>>, temp_index |-> 0, i |-> -1],
              order, names, paths, 1)

\* lines 117-123 with the hint-ordered prefix left out
ModuleLists_Unordered(order, names, paths) ==
    [module_names |-> Dedup(names), module_paths |-> Dedup(paths)]

\* lines 117-123 without the duplicate removal of lines 120-123
ModuleLists_NoDedup(order, names, paths) ==
    LET ol == OrderedLists(order, names, paths)
    IN  [module_names |-> ol.ordered_names \o names,
         module_paths |-> ol.ordered_paths \o paths]

\* lines 117-123 with the discovery lists appended back to front
ModuleLists_ReversedDiscovery(order, names, paths) ==
    LET ol == OrderedLists(order, names, paths)
        rev(q) == [k \in 1 .. Len(q) |-> q[Len(q) + 1 - k]]
    IN  [module_names |-> Dedup(ol.ordered_names \o rev(names)),
         module_paths |-> Dedup(ol.ordered_paths \o rev(paths))]

\* module_names and module_paths of line 122-123
ModuleLists(order, names, paths) ==
    LET ol == OrderedLists(order, names, paths)
    IN  [module_names |-> Dedup(ol.ordered_names \o names),
         module_paths |-> Dedup(ol.ordered_paths \o paths)]

\* the prologue of one import_modules call: the frame it iterates over
Level(module_name, only_packages, order) ==
    LET ex == ExplorePackage(module_name, only_packages)
        ml == ModuleLists(order, ex.names, ex.paths)
    IN  [names |-> ex.names,
         module_names |-> ml.module_names,
         module_paths |-> ml.module_paths,
         pairs |-> Zip(ml.module_names, ml.module_paths)]

(***************************************************************************)
(* The registry (an OrderedDict) and the call stack.                       *)
(***************************************************************************)
\* loaded_modules.keys()
Keys(d) == {d[k].name : k \in 1 .. Len(d)}

\* d[key] = [dir, mod]: replaces the value of an existing key in place,
\* appends a new key
DictSet(d, key, dir, mod) ==
    IF key \in Keys(d)
    THEN [k \in 1 .. Len(d) |-> IF d[k].name = key
                                THEN [name |-> key, dir |-> dir, mod |-> mod]
                                ELSE d[k]]
    ELSE Append(d, [name |-> key, dir |-> dir, mod |-> mod])

\* d[key][1]
DictMod(d, key) == (CHOOSE r \in SeqElems(d) : r.name = key).mod

\* line 132 without the membership test
AlreadyLoaded_Always(name) == FALSE

\* line 132: name in cls.loaded_modules.keys()
AlreadyLoaded(name) == name \in Keys(loaded_modules)

\* the frame of one import_modules call: the zipped lists, the loop it is in
\* (lines 131-137 or lines 139-145) and the position in that loop
Frame(lv) == [pairs |-> lv.pairs, phase |-> "import", idx |-> 1]

Top(stk) == stk[Len(stk)]
Pop(stk) == SubSeq(stk, 1, Len(stk) - 1)
SetTop(stk, f) == Append(Pop(stk), f)

\* control flow at the end of the loops: the import loop is followed by the
\* recursion loop, the end of the recursion loop returns to the caller
RECURSIVE Unwind(_)
Unwind(stk) ==
    IF stk = <<>> THEN <<>>
    ELSE LET f == Top(stk)
         IN  IF f.idx <= Len(f.pairs) THEN stk
             ELSE IF f.phase = "import"
             THEN Unwind(SetTop(stk, [f EXCEPT !.phase = "recurse", !.idx = 1]))
             ELSE Unwind(Pop(stk))

\* the event an import_modules call leaves in the log
CallEvent(module_name, only_packages, order, lv) ==
    [ev |-> "import_modules", module_name |-> module_name,
     only_packages |-> only_packages, order |-> order, names |-> lv.names,
     module_names |-> lv.module_names, pairs |-> lv.pairs]

\* continue after a step of the walk that leaves the stack stk and the log lg:
\* the outermost import_modules returns to initialize (line 37 is next) or to
\* the caller
WalkNext(caller, stk, lg) ==
    LET s == Unwind(stk)
    IN  /\ stack' = s
        /\ log' = lg
        /\ IF s # <<>> THEN pc' = "import_modules" /\ result' = "running"
           ELSE IF caller = "initialize" THEN pc' = "init37" /\ result' = "running"
           ELSE pc' = "idle" /\ result' = "returned"

\* continue reload_all at position k of the queue
ReloadNext(k, lg) ==
    /\ log' = lg
    /\ IF k <= Len(reload_modules)
       THEN pc' = "reload_all" /\ ridx' = k /\ result' = "running"
       ELSE pc' = "idle" /\ ridx' = 0 /\ result' = "returned"

NoOrdering ==
    [done |-> FALSE, ordered_names |-> <<>>, ordered_paths |-> <<>>,
     module_names |-> <<>>, module_paths |-> <<>>]

\* no call of the classes outside the bootstrapper is under way
NoCall == [done |-> FALSE]

\* the state of the classes outside the bootstrapper
aside == <<res_call, scr_call, folder_btn, theme, file_list>>
Aside ==
    /\ res_call = NoCall
    /\ scr_call = NoCall
    /\ folder_btn = NoCall
    /\ theme = NoCall
    /\ file_list = NoCall

env == <<platform, root_entries, order_arg, names_arg, ordering, aside>>
registry == <<loaded_modules, reload_modules>>
snapshot == <<start_loaded, start_reload>>

(***************************************************************************)
(* Initial state: the class attributes of lines 20 and 27-28.              *)
(***************************************************************************)
Init ==
    /\ platform \in {"nt", "posix"}
    /\ root_entries \in RootListings
    /\ logger = 0
    /\ loaded_modules = <<>>
    /\ reload_modules = <<>>
    /\ pc = "idle"
    /\ op = "none"
    /\ stack = <<>>
    /\ ridx = 0
    /\ result = "none"
    /\ log = <<>>
    /\ calls = 0
    /\ start_loaded = <<>>
    /\ start_reload = <<>>
    /\ order_arg = <<>>
    /\ names_arg = <<>>
    /\ ordering = NoOrdering
    /\ Aside

(***************************************************************************)
(* initialize                                                              *)
(***************************************************************************)
\* a top-level call starts
StartCall(name) ==
    /\ pc = "idle"
    /\ calls < MaxCalls
    /\ calls' = calls + 1
    /\ op' = name
    /\ start_loaded' = loaded_modules
    /\ start_reload' = reload_modules

\* tpQtLib.initialize() is called
Initialize ==
    /\ StartCall("initialize")
    /\ pc' = "init35"
    /\ result' = "running"
    /\ log' = <<>>
    /\ UNCHANGED <<env, logger, registry, stack, ridx>>

\* line 35 followed by line 37: the import walk left out
CreateLogger_SkipImport ==
    /\ pc = "init35"
    /\ logger' = logger + 1
    /\ pc' = "init37"
    /\ log' = Append(log, [ev |-> "create_logger"])
    /\ UNCHANGED <<env, registry, op, stack, ridx, result, calls, snapshot>>

\* line 35, create_logger: a new Logger instance becomes the module global
CreateLogger ==
    /\ pc = "init35"
    /\ logger' = logger + 1
    /\ pc' = "init36"
    /\ log' = Append(log, [ev |-> "create_logger"])
    /\ UNCHANGED <<env, registry, op, stack, ridx, result, calls, snapshot>>

\* the hint of line 36
InitOrder == <<tpQtLibStr \o <<".">> \o core>>

\* line 36: import_modules(tpQtLib.__path__[0], only_packages=True, order=['tpQtLib.core'])
InitImport ==
    /\ pc = "init36"
    /\ LET lv == Level(RootPath, TRUE, InitOrder)
       IN  WalkNext("initialize", <<Frame(lv)>>, Append(log, CallEvent(RootPath, TRUE, InitOrder, lv)))
    /\ UNCHANGED <<env, logger, registry, op, ridx, calls, snapshot>>

\* line 37 run only when the call registered something
InitReload_OnlyWhenNew ==
    /\ pc = "init37"
    /\ IF loaded_modules = start_loaded
       THEN pc' = "idle" /\ result' = "returned" /\ log' = log /\ ridx' = ridx
       ELSE ReloadNext(1, Append(log, [ev |-> "reload_all"]))
    /\ UNCHANGED <<env, logger, registry, op, stack, calls, snapshot>>

\* line 37: reload_all()
InitReload ==
    /\ pc = "init37"
    /\ ReloadNext(1, Append(log, [ev |-> "reload_all"]))
    /\ UNCHANGED <<env, logger, registry, op, stack, calls, snapshot>>

(***************************************************************************)
(* import_modules                                                          *)
(***************************************************************************)
\* the arguments a direct caller passes: plain modules too, a suffix hint
CallerArgs == {[only_packages |-> FALSE, order |-> <<core>>]}

\* import_modules called directly (the logger exists: _import_module logs)
ImportModules ==
    /\ logger # 0
    /\ StartCall("import_modules")
    /\ \E a \in CallerArgs :
          LET lv == Level(RootPath, a.only_packages, a.order)
          IN  WalkNext("import_modules", <<Frame(lv)>>,
                       <<CallEvent(RootPath, a.only_packages, a.order, lv)>>)
    /\ UNCHANGED <<env, logger, registry, ridx>>

InImportLoop == pc = "import_modules" /\ Top(stack).phase = "import"
CurName == Top(stack).pairs[Top(stack).idx].name
CurPath == Top(stack).pairs[Top(stack).idx].path
Advanced == SetTop(stack, [Top(stack) EXCEPT !.idx = @ + 1])

\* line 132 false with the loop of line 131 started over after its last pair
ImportSkip_Restart ==
    /\ InImportLoop
    /\ AlreadyLoaded(CurName)
    /\ WalkNext(op, SetTop(stack, [Top(stack) EXCEPT
                                     !.idx = IF @ = Len(Top(stack).pairs) THEN 1 ELSE @ + 1]),
                log)
    /\ UNCHANGED <<env, logger, registry, op, ridx, calls, snapshot>>

\* line 132 passed for a registered name: it is imported and registered again
ImportSkip_Reimport ==
    /\ InImportLoop
    /\ AlreadyLoaded(CurName)
    /\ LET mod == ModuleOf(CurName)
       IN  /\ loaded_modules' = DictSet(loaded_modules, mod.name, mod.dir, mod)
           /\ reload_modules' = Append(reload_modules, mod)
    /\ WalkNext(op, Advanced, Append(log, [ev |-> "_import_module", name |-> CurName, res |-> "ok"]))
    /\ UNCHANGED <<env, logger, op, ridx, calls, snapshot>>

\* line 132 false: the name is registered, nothing is imported
ImportSkip ==
    /\ InImportLoop
    /\ AlreadyLoaded(CurName)
    /\ WalkNext(op, Advanced, log)
    /\ UNCHANGED <<env, logger, registry, op, ridx, calls, snapshot>>

\* lines 133-137 with the module put at the front of the reload queue
ImportOk_Prepend ==
    /\ InImportLoop
    /\ ~AlreadyLoaded(CurName)
    /\ LET mod == ModuleOf(CurName)
       IN  /\ loaded_modules' = DictSet(loaded_modules, mod.name, mod.dir, mod)
           /\ reload_modules' = <<mod>> \o reload_modules
    /\ WalkNext(op, Advanced, Append(log, [ev |-> "_import_module", name |-> CurName, res |-> "ok"]))
    /\ UNCHANGED <<env, logger, op, ridx, calls, snapshot>>

\* lines 133-137 with the registry rebuilt on a successful import
ImportOk_ResetRegistry ==
    /\ InImportLoop
    /\ ~AlreadyLoaded(CurName)
    /\ LET mod == ModuleOf(CurName)
       IN  /\ loaded_modules' = DictSet(<<>>, mod.name, mod.dir, mod)
           /\ reload_modules' = Append(reload_modules, mod)
    /\ WalkNext(op, Advanced, Append(log, [ev |-> "_import_module", name |-> CurName, res |-> "ok"]))
    /\ UNCHANGED <<env, logger, op, ridx, calls, snapshot>>

\* lines 133-135 without line 136: the module is registered but not queued
ImportOk_NoQueue ==
    /\ InImportLoop
    /\ ~AlreadyLoaded(CurName)
    /\ LET mod == ModuleOf(CurName)
       IN  /\ loaded_modules' = DictSet(loaded_modules, mod.name, mod.dir, mod)
           /\ reload_modules' = reload_modules
    /\ WalkNext(op, Advanced, Append(log, [ev |-> "_import_module", name |-> CurName, res |-> "ok"]))
    /\ UNCHANGED <<env, logger, op, ridx, calls, snapshot>>

\* lines 133-137, the import succeeds: the module is registered and queued
ImportOk ==
    /\ InImportLoop
    /\ ~AlreadyLoaded(CurName)
    /\ LET mod == ModuleOf(CurName)
       IN  /\ loaded_modules' = DictSet(loaded_modules, mod.name, mod.dir, mod)
           /\ reload_modules' = Append(reload_modules, mod)
    /\ WalkNext(op, Advanced, Append(log, [ev |-> "_import_module", name |-> CurName, res |-> "ok"]))
    /\ UNCHANGED <<env, logger, op, ridx, calls, snapshot>>

\* lines 91-93 with the failure ending the loop of line 131
ImportFail_Break ==
    /\ InImportLoop
    /\ ~AlreadyLoaded(CurName)
    /\ \E exc \in {"ImportError", "AttributeError"} :
          WalkNext(op, SetTop(stack, [Top(stack) EXCEPT !.idx = Len(Top(stack).pairs) + 1]),
                   Append(log, [ev |-> "_import_module", name |-> CurName, res |-> "None"]))
    /\ UNCHANGED <<env, logger, registry, op, ridx, calls, snapshot>>

\* lines 91-93: ImportError or AttributeError is caught, _import_module returns None
ImportFail ==
    /\ InImportLoop
    /\ ~AlreadyLoaded(CurName)
    /\ \E exc \in {"ImportError", "AttributeError"} :
          WalkNext(op, Advanced, Append(log, [ev |-> "_import_module", name |-> CurName, res |-> "None"]))
    /\ UNCHANGED <<env, logger, registry, op, ridx, calls, snapshot>>

\* any other exception of the imported module's code leaves import_modules
ImportRaise ==
    /\ InImportLoop
    /\ ~AlreadyLoaded(CurName)
    /\ pc' = "idle"
    /\ result' = "raised"
    /\ stack' = <<>>
    /\ log' = Append(log, [ev |-> "_import_module", name |-> CurName, res |-> "raised"])
    /\ UNCHANGED <<env, logger, registry, op, ridx, calls, snapshot>>

\* lines 139-145: the recursive call for the current pair
Recurse ==
    /\ pc = "import_modules"
    /\ Top(stack).phase = "recurse"
    /\ LET order == IF CurName \in Keys(loaded_modules) /\ HasOrder(DictMod(loaded_modules, CurName))
                    THEN ModOrder(DictMod(loaded_modules, CurName))
                    ELSE <<>>
           lv == Level(CurPath, FALSE, order)
       IN  WalkNext(op, Append(Advanced, Frame(lv)),
                    Append(log, CallEvent(CurPath, FALSE, order, lv)))
    /\ UNCHANGED <<env, logger, registry, op, ridx, calls, snapshot>>

(***************************************************************************)
(* reload_all                                                              *)
(***************************************************************************)
\* reload_all called directly (the logger exists: line 155 logs)
ReloadAll ==
    /\ logger # 0
    /\ StartCall("reload_all")
    /\ ReloadNext(1, <<[ev |-> "reload_all"]>>)
    /\ UNCHANGED <<env, logger, registry, stack>>

CurMod == reload_modules[ridx]

\* lines 158-160: the module is re-executed
ReloadOk ==
    /\ pc = "reload_all"
    /\ ~HasNoReload(CurMod)
    /\ ReloadNext(ridx + 1, Append(log, [ev |-> "reload", mod |-> CurMod]))
    /\ UNCHANGED <<env, logger, registry, op, stack, calls, snapshot>>

\* line 160 with the exception caught and the loop continued
ReloadRaise_Continue ==
    /\ pc = "reload_all"
    /\ ~HasNoReload(CurMod)
    /\ ReloadNext(ridx + 1, Append(log, [ev |-> "reload_raised", mod |-> CurMod]))
    /\ UNCHANGED <<env, logger, registry, op, stack, calls, snapshot>>

\* line 160: the re-executed code raises, the exception leaves reload_all
ReloadRaise ==
    /\ pc = "reload_all"
    /\ ~HasNoReload(CurMod)
    /\ pc' = "idle"
    /\ result' = "raised"
    /\ log' = Append(log, [ev |-> "reload_raised", mod |-> CurMod])
    /\ UNCHANGED <<env, logger, registry, op, stack, ridx, calls, snapshot>>

\* lines 158-162 without the hasattr test: the module is re-executed
ReloadSkip_Reloads ==
    /\ pc = "reload_all"
    /\ HasNoReload(CurMod)
    /\ ReloadNext(ridx + 1, Append(log, [ev |-> "reload", mod |-> CurMod]))
    /\ UNCHANGED <<env, logger, registry, op, stack, calls, snapshot>>

\* lines 161-162: a module with no_reload is left alone
ReloadSkip ==
    /\ pc = "reload_all"
    /\ HasNoReload(CurMod)
    /\ ReloadNext(ridx + 1, Append(log, [ev |-> "avoid_reload", mod |-> CurMod]))
    /\ UNCHANGED <<env, logger, registry, op, stack, calls, snapshot>>

Next ==
    \/ Initialize
    \/ CreateLogger
    \/ InitImport
    \/ InitReload
    \/ ImportModules
    \/ ImportSkip
    \/ ImportOk
    \/ ImportFail
    \/ ImportRaise
    \/ Recurse
    \/ ReloadAll
    \/ ReloadOk
    \/ ReloadRaise
    \/ ReloadSkip

Spec == Init /\ [][Next]_vars

(***************************************************************************)
(* initialize as the only entry point, run to completion: the interpreter  *)
(* is single-threaded and nothing suspends a call, so a running call       *)
(* does not stand still for ever: its next statement is executed.  A       *)
(* running call (pc # "idle") always has a next statement, which makes     *)
(* RunsOn the weak fairness of StepInitialize: WF_vars(StepInitialize).    *)
(***************************************************************************)
\* the statements of a running call
StepInitialize ==
    \/ CreateLogger
    \/ InitImport
    \/ InitReload
    \/ ImportSkip
    \/ ImportOk
    \/ ImportFail
    \/ ImportRaise
    \/ Recurse
    \/ ReloadOk
    \/ ReloadRaise
    \/ ReloadSkip

NextInitialize ==
    \/ Initialize
    \/ StepInitialize

RunsOn == []<>(pc = "idle") \/ []<><<StepInitialize>>_vars

SpecInitialize == Init /\ [][NextInitialize]_vars /\ RunsOn

(***************************************************************************)
(* The ordering of import_modules (lines 98-123) on its own: the hint list *)
(* and the discovered names are drawn from bounded sets.                   *)
(***************************************************************************)
pkg == <<"p", "k", "g">>
utils == <<"u", "t", "i", "l", "s">>
ext == <<"e", "x", "t">>
Dotted(a, b) == a \o <<".">> \o b

NamePool == {Dotted(pkg, core), Dotted(pkg, utils), Dotted(pkg, core_ext), Dotted(pkg, widgets)}
HintPool == {core, Dotted(pkg, core), Dotted(pkg, utils), ext}

RECURSIVE SeqsUpTo(_, _)
SeqsUpTo(S, n) ==
    IF n = 0 THEN {<<>>}
    ELSE LET shorter == SeqsUpTo(S, n - 1)
         IN  shorter \cup {Append(t, x) : t \in {u \in shorter : Len(u) = n - 1}, x \in S}

\* the path _explore_package pairs with a discovered name
PathOfName(n) == DirPath(<<n>>)

InitOrdering ==
    /\ order_arg \in SeqsUpTo(HintPool, MaxHints)
    /\ names_arg \in DistinctSeqs(NamePool, MaxNames)
    /\ ordering = NoOrdering
    /\ platform = "posix"
    /\ root_entries = <<>>
    /\ logger = 0
    /\ loaded_modules = <<>>
    /\ reload_modules = <<>>
    /\ pc = "idle"
    /\ op = "none"
    /\ stack = <<>>
    /\ ridx = 0
    /\ result = "none"
    /\ log = <<>>
    /\ calls = 0
    /\ start_loaded = <<>>
    /\ start_reload = <<>>
    /\ Aside

\* lines 98-123 applied to the drawn inputs
ApplyOrdering ==
    /\ ~ordering.done
    /\ LET paths == [k \in 1 .. Len(names_arg) |-> PathOfName(names_arg[k])]
           ol == OrderedLists(order_arg, names_arg, paths)
           ml == ModuleLists(order_arg, names_arg, paths)
       IN  ordering' = [done |-> TRUE,
                        ordered_names |-> ol.ordered_names,
                        ordered_paths |-> ol.ordered_paths,
                        module_names |-> ml.module_names,
                        module_paths |-> ml.module_paths]
    /\ UNCHANGED <<platform, root_entries, logger, registry, pc, op, stack, ridx,
                   result, log, calls, snapshot, order_arg, names_arg, aside>>

NextOrdering == ApplyOrdering

SpecOrdering == InitOrdering /\ [][NextOrdering]_vars

(***************************************************************************)
(* core/resource.py: Resource.generate_resources_file on a drawn           *)
(* filesystem.                                                             *)
(***************************************************************************)
\* the bootstrapper at rest, untouched by the classes outside it
Bootstrapper == <<platform, root_entries, logger, loaded_modules, reload_modules, pc, op,
                  stack, ridx, result, log, calls, start_loaded, start_reload,
                  order_arg, names_arg, ordering>>
BootstrapperAtRest ==
    /\ platform = "posix"
    /\ root_entries = <<>>
    /\ logger = 0
    /\ loaded_modules = <<>>
    /\ reload_modules = <<>>
    /\ pc = "idle"
    /\ op = "none"
    /\ stack = <<>>
    /\ ridx = 0
    /\ result = "none"
    /\ log = <<>>
    /\ calls = 0
    /\ start_loaded = <<>>
    /\ start_reload = <<>>
    /\ order_arg = <<>>
    /\ names_arg = <<>>
    /\ ordering = NoOrdering

\* cls.RESOURCES_FOLDER and the folders a caller may pass
RESOURCES_FOLDER == "resources"
AskedFolders == {"asked_a", "asked_b"}
FolderPaths == AskedFolders \cup {RESOURCES_FOLDER}

\* what a path is on the filesystem
PathKinds == {"missing", "dir", "file"}

\* os.path.isdir and os.path.exists
IsDir(fs, p) == fs[p] = "dir"
Exists(fs, p) == fs[p] # "missing"

\* lines 41-42: the folder the method works on
FolderUsed(fs, resources_folder) ==
    IF resources_folder = "None" \/ ~IsDir(fs, resources_folder)
    THEN RESOURCES_FOLDER
    ELSE resources_folder

InitResource ==
    /\ BootstrapperAtRest
    /\ scr_call = NoCall /\ folder_btn = NoCall /\ theme = NoCall /\ file_list = NoCall
    /\ \E fs \in [FolderPaths -> PathKinds], rf \in AskedFolders \cup {"None"},
          gq \in BOOLEAN :
          res_call = [done |-> FALSE, fs |-> fs, resources_folder |-> rf,
                      generate_qr_file |-> gq, folder |-> "None", outcome |-> "none"]

\* lines 39-60; has_qrc is whether res.qrc is a file at line 57 (create_qrc_file
\* writes it when generate_qr_file is set, and it may be there from before)
GenerateResourcesFile ==
    /\ ~res_call.done
    /\ LET folder == FolderUsed(res_call.fs, res_call.resources_folder)
       IN  \E has_qrc \in BOOLEAN :
              res_call' = [res_call EXCEPT
                             !.done = TRUE,
                             !.folder = folder,
                             !.outcome = IF ~Exists(res_call.fs, folder) THEN "RuntimeError"
                                         ELSE IF ~has_qrc THEN "returned"
                                         ELSE "generated"]
    /\ UNCHANGED <<Bootstrapper, scr_call, folder_btn, theme, file_list>>

NextResource == GenerateResourcesFile

SpecResource == InitResource /\ [][NextResource]_vars

(***************************************************************************)
(* core/qtutils.py: find_coordinates_inside_screen on drawn monitors.      *)
(***************************************************************************)
MaxPadding == 1

\* win32.get_active_monitor_area(): the areas (x1, y1, x2, y2) of the monitors
Monitor(x1, y1, x2, y2) == [x1 |-> x1, y1 |-> y1, x2 |-> x2, y2 |-> y2]
MonitorAreas ==
    {<<>>, <<Monitor(0, 0, 4, 3)>>, <<Monitor(0, 0, 4, 3), Monitor(4, 0, 8, 3)>>}

\* if v < lo: lo, elif v > hi: hi
Clamp(v, lo, hi) == IF v < lo THEN lo ELSE IF v > hi THEN hi ELSE v

\* the offset of lines 1188-1195 for one coordinate
Offset(v, lo, hi) == IF v < lo THEN lo - v ELSE IF v > hi THEN v - hi ELSE 0

SetMin(S) == CHOOSE v \in S : \A w \in S : v <= w
SetMax(S) == CHOOSE v \in S : \A w \in S : v >= w

\* lines 1158-1160: the areas in which the top-left corner may lie
MonitorAdjusted(areas, width, height, padding) ==
    {Monitor(areas[k].x1, areas[k].y1, areas[k].x2 - width - padding,
             areas[k].y2 - height - padding) : k \in 1 .. Len(areas)}

\* lines 1165-1207: the positions the function can return when monitors are
\* reported (the dict of line 1184 has no order: any monitor of least offset)
InsideMonitors(c) ==
    LET adj == MonitorAdjusted(c.areas, c.width, c.height, c.padding)
        x == Clamp(c.x, SetMin({m.x1 : m \in adj}), SetMax({m.x2 : m \in adj}))
        y == Clamp(c.y, SetMin({m.y1 : m \in adj}), SetMax({m.y2 : m \in adj}))
        off(m) == Offset(x, m.x1, m.x2) + Offset(y, m.y1, m.y2)
        nearest == {m \in adj : \A n \in adj : off(m) <= off(n)}
    IN  {[x |-> Clamp(x, m.x1, m.x2), y |-> Clamp(y, m.y1, m.y2)] : m \in nearest}

\* lines 1209-1213: the padding is taken off a coordinate that was moved
ReversePadding(v, orig, padding) == IF v # orig THEN v - padding ELSE v

InitScreen ==
    /\ BootstrapperAtRest
    /\ res_call = NoCall /\ folder_btn = NoCall /\ theme = NoCall /\ file_list = NoCall
    /\ \E os_name \in {"nt", "posix"}, areas \in MonitorAreas, x \in -2 .. 9, y \in {-1, 1, 3},
          width \in {1, 2}, padding \in 0 .. MaxPadding :
          scr_call = [done |-> FALSE, os_name |-> os_name, areas |-> areas, x |-> x, y |-> y,
                      width |-> width, height |-> 1, padding |-> padding,
                      rx |-> 0, ry |-> 0]

\* lines 1141-1214
FindCoordinatesInsideScreen ==
    /\ ~scr_call.done
    /\ \E pos \in IF scr_call.os_name # "nt" \/ scr_call.areas = <<>>
                  THEN {[x |-> scr_call.x, y |-> scr_call.y]}
                  ELSE InsideMonitors(scr_call) :
          scr_call' = [scr_call EXCEPT
                          !.done = TRUE,
                          !.rx = ReversePadding(pos.x, scr_call.x, scr_call.padding),
                          !.ry = ReversePadding(pos.y, scr_call.y, scr_call.padding)]
    /\ UNCHANGED <<Bootstrapper, res_call, folder_btn, theme, file_list>>

NextScreen == FindCoordinatesInsideScreen

SpecScreen == InitScreen /\ [][NextScreen]_vars

(***************************************************************************)
(* widgets/directory.py: SelectFolderButton._open_folder_browser_dialog.   *)
(***************************************************************************)
\* the folders the user can pick in the dialog
FolderPool == {<<"C", ":", "\\", "a">>, <<"/", "b">>, <<"/", "c", "/">>}

\* what cmds.fileDialog2 returns: None when cancelled, else the list of picks
DialogResults == {<<>>} \cup {<<f>> : f \in FolderPool}
                 \cup {<<f, g>> : f \in FolderPool, g \in FolderPool}

\* path.clean_path: back slashes become forward slashes, a trailing slash of
\* a path longer than one character is dropped
CleanPath(q) ==
    LET fwd == [k \in 1 .. Len(q) |-> IF q[k] = "\\" THEN "/" ELSE q[k]]
    IN  IF Len(fwd) > 1 /\ fwd[Len(fwd)] = "/" THEN SubSeq(fwd, 1, Len(fwd) - 1) ELSE fwd

InitFolderButton ==
    /\ BootstrapperAtRest
    /\ res_call = NoCall /\ scr_call = NoCall /\ theme = NoCall /\ file_list = NoCall
    /\ \E dcc \in {"maya", "max", "houdini"}, dirs \in SUBSET FolderPool :
          folder_btn = [done |-> FALSE, at |-> "idle", dcc |-> dcc, dirs |-> dirs,
                        result |-> <<>>, emitted |-> <<>>, outcome |-> "none", ret |-> <<>>]

OthersThanButton == <<Bootstrapper, res_call, scr_call, theme, file_list>>

\* line 212: the button is clicked, beforeNewDirectory is emitted
EmitBeforeNewDirectory ==
    /\ folder_btn.at = "idle" /\ ~folder_btn.done
    /\ folder_btn' = [folder_btn EXCEPT
                         !.at = "line214",
                         !.emitted = Append(@, [sig |-> "beforeNewDirectory", arg |-> <<>>])]
    /\ UNCHANGED OthersThanButton

\* lines 214-216: in Maya the dialog is shown and the user picks or cancels
ShowDialog ==
    /\ folder_btn.at = "line214" /\ folder_btn.dcc = "maya"
    /\ \E r \in DialogResults :
          folder_btn' = [folder_btn EXCEPT
                            !.at = "line217",
                            !.result = r,
                            !.emitted = Append(@, [sig |-> "fileDialog2", arg |-> <<>>])]
    /\ UNCHANGED OthersThanButton

\* lines 221-223: any other DCC
RaiseNotImplemented ==
    /\ folder_btn.at = "line214" /\ folder_btn.dcc # "maya"
    /\ folder_btn' = [folder_btn EXCEPT
                         !.at = "idle", !.done = TRUE, !.outcome = "NotImplementedError"]
    /\ UNCHANGED OthersThanButton

\* lines 217-220 with an empty result: return
ReturnCancelled ==
    /\ folder_btn.at = "line217" /\ folder_btn.result = <<>>
    /\ folder_btn' = [folder_btn EXCEPT !.at = "idle", !.done = TRUE, !.outcome = "None"]
    /\ UNCHANGED OthersThanButton

\* lines 217-218 and 225-229: result = result[0], the signal, the return value
\* (result is a string by now: result[0] of line 229 is its first character)
EmitDirectoryChanged ==
    /\ folder_btn.at = "line217" /\ folder_btn.result # <<>>
    /\ LET picked == folder_btn.result[1]
       IN  folder_btn' = [folder_btn EXCEPT
                             !.at = "idle",
                             !.done = TRUE,
                             !.emitted = Append(@, [sig |-> "directoryChanged", arg |-> picked]),
                             !.outcome = IF picked \in folder_btn.dirs THEN "path" ELSE "None",
                             !.ret = IF picked \in folder_btn.dirs
                                     THEN CleanPath(SubSeq(picked, 1, 1)) ELSE <<>>]
    /\ UNCHANGED OthersThanButton

NextFolderButton ==
    \/ EmitBeforeNewDirectory
    \/ ShowDialog
    \/ RaiseNotImplemented
    \/ ReturnCancelled
    \/ EmitDirectoryChanged

SpecFolderButton == InitFolderButton /\ [][NextFolderButton]_vars

(***************************************************************************)
(* widgets/message.py: BaseMessage.theme_type.                             *)
(***************************************************************************)
MaxAssign == 4

\* MessageTypes, and the values a caller may assign to theme_type
SupportedTypes == {"info", "success", "warning", "error"}
AssignedValues == SupportedTypes \cup {"loading", "danger"}

\* lines 88-92: the pixmap of the type, coloured when a theme is installed
IconOf(type, has_theme) == [pixmap |-> type, coloured |-> has_theme]

\* _set_type with the value stored before it is validated
SetType_StoreFirst(value) ==
    IF value \in SupportedTypes
    THEN [theme EXCEPT !._type = value, !.icon = IconOf(value, theme.has_theme),
                       !.asked = value, !.outcome = "ok", !.n = @ + 1]
    ELSE [theme EXCEPT !._type = value,
                       !.asked = value, !.outcome = "ValueError", !.n = @ + 1]

\* _set_type, lines 75-93: the message after theme_type = value
SetType(value) ==
    IF value \in SupportedTypes
    THEN [theme EXCEPT !._type = value, !.icon = IconOf(value, theme.has_theme),
                       !.asked = value, !.outcome = "ok", !.n = @ + 1]
    ELSE [theme EXCEPT !.asked = value, !.outcome = "ValueError", !.n = @ + 1]

\* __init__ (lines 31-43) has run: theme_type = MessageTypes.INFO
InitMessage ==
    /\ BootstrapperAtRest
    /\ res_call = NoCall /\ scr_call = NoCall /\ folder_btn = NoCall /\ file_list = NoCall
    /\ \E has_theme \in BOOLEAN :
          theme = [done |-> FALSE, _type |-> "info", icon |-> IconOf("info", has_theme),
                   has_theme |-> has_theme, asked |-> "info", outcome |-> "ok",
                   via |-> "__init__", n |-> 0]

OthersThanMessage == <<Bootstrapper, res_call, scr_call, folder_btn, file_list>>

\* message.theme_type = value
AssignThemeType ==
    /\ theme.n < MaxAssign
    /\ \E value \in AssignedValues :
          theme' = [SetType(value) EXCEPT !.via = "property"]
    /\ UNCHANGED OthersThanMessage

\* info(), success(), warning(), error(): lines 148-182
CallTypeMethod ==
    /\ theme.n < MaxAssign
    /\ \E method \in {"info", "success", "warning", "error"} :
          theme' = [SetType(method) EXCEPT !.via = method]
    /\ UNCHANGED OthersThanMessage

NextMessage ==
    \/ AssignThemeType
    \/ CallTypeMethod

SpecMessage == InitMessage /\ [][NextMessage]_vars

(***************************************************************************)
(* widgets/directory.py: FileListWidget selection signals.                 *)
(***************************************************************************)
MaxSelected == 3

\* QListWidgetItems of the list: type 0 is a directory, type 1 a file
ListItems ==
    { [text |-> "scenes", type |-> 0], [text |-> "a.ma", type |-> 1],
      [text |-> "b.ma", type |-> 1], [text |-> "notes", type |-> 2] }

\* selectedItems(): distinct items, in the order the view reports them
Selections ==
    UNION { { q \in [1..n -> ListItems] : \A i, j \in 1..n : i # j => q[i] # q[j] }
            : n \in 0..MaxSelected }

\* lines 92-98: what selectItem emits
SelectItem(selected) ==
    IF Len(selected) > 0
    THEN LET item == selected[1]
         IN  (IF item.type = 0
              THEN << [signal |-> "folder_selected", arg |-> item.text] >> ELSE << >>)
             \o (IF item.type = 1
                 THEN << [signal |-> "file_selected", arg |-> item.text] >> ELSE << >>)
    ELSE << >>

\* lines 113-120: what processSelectionChanged emits
ProcessSelectionChanged(selected) ==
    LET IsFile(x) == x.type # 0
        items == SelectSeq(selected, IsFile)
        names == [i \in 1..Len(items) |-> items[i].text]
    IN  << [signal |-> "files_selected", arg |-> names] >>

SlotEmits(slot, selected) ==
    IF slot = "selectItem" THEN SelectItem(selected)
    ELSE ProcessSelectionChanged(selected)

\* the slots connected to itemSelectionChanged run in connection order
RECURSIVE RunSlots(_, _)
RunSlots(slots, selected) ==
    IF slots = << >> THEN << >>
    ELSE SlotEmits(Head(slots), selected) \o RunSlots(Tail(slots), selected)

\* __init__ (lines 37-44) has connected selectItem
InitFileList ==
    /\ BootstrapperAtRest
    /\ res_call = NoCall /\ scr_call = NoCall /\ folder_btn = NoCall /\ theme = NoCall
    /\ file_list = [done |-> FALSE, slots |-> << "selectItem" >>, mode |-> "single",
                    selected |-> << >>, emitted |-> << >>, outcome |-> "constructed"]

OthersThanFileList == <<Bootstrapper, res_call, scr_call, folder_btn, theme>>

\* the selection of the view changes: itemSelectionChanged is emitted
ItemSelectionChanged ==
    /\ \E selected \in Selections :
          /\ selected # file_list.selected
          /\ file_list' = [file_list EXCEPT !.selected = selected,
                              !.emitted = RunSlots(file_list.slots, selected),
                              !.outcome = "changed"]
    /\ UNCHANGED OthersThanFileList

\* setExtendedSelection that leaves selectItem connected
SetExtendedSelection_KeepSelectItem ==
    /\ file_list' = [file_list EXCEPT !.mode = "extended",
                        !.slots = Append(@, "processSelectionChanged"),
                        !.emitted = << >>, !.outcome = "extended"]
    /\ UNCHANGED OthersThanFileList

\* setExtendedSelection, lines 108-111: disconnecting a slot that is not
\* connected raises, and the connect of line 111 is not reached
SetExtendedSelection ==
    /\ IF \E i \in 1..Len(file_list.slots) : file_list.slots[i] = "selectItem"
       THEN LET IsOther(x) == x # "selectItem"
            IN  file_list' = [file_list EXCEPT !.mode = "extended",
                    !.slots = Append(SelectSeq(@, IsOther), "processSelectionChanged"),
                    !.emitted = << >>, !.outcome = "extended"]
       ELSE file_list' = [file_list EXCEPT !.mode = "extended",
                    !.emitted = << >>, !.outcome = "raised"]
    /\ UNCHANGED OthersThanFileList

NextFileList ==
    \/ ItemSelectionChanged
    \/ SetExtendedSelection

SpecFileList == InitFileList /\ [][NextFileList]_vars

(***************************************************************************)
(* Properties.                                                             *)
(***************************************************************************)
LogIdx == 1 .. Len(log)
IsImport(e) == e.ev = "_import_module"
IsCall(e) == e.ev = "import_modules"
IsReload(e) == e.ev \in {"reload", "reload_raised"}
Reloadable(mod) == ~HasNoReload(mod)

\* the modules re-executed by the running call, in order
ReloadedMods ==
    LET evs == SelectSeq(log, IsReload)
    IN  [k \in 1 .. Len(evs) |-> evs[k].mod]

\* C1: loaded_modules holds at most one record per qualified name;
\* _import_module is never called for a name that is already a key of
\* loaded_modules; a call that discovers only registered names adds no
\* record and no reload-queue entry.
C1_ImportIdempotent ==
    /\ \A a, b \in 1 .. Len(loaded_modules) :
          a # b => loaded_modules[a].name # loaded_modules[b].name
    /\ \A k \in LogIdx :
          IsImport(log[k]) =>
             /\ log[k].name \notin Keys(start_loaded)
             /\ \A j \in 1 .. k - 1 :
                   ~(IsImport(log[j]) /\ log[j].res = "ok" /\ log[j].name = log[k].name)
    /\ (\A k \in LogIdx :
           IsCall(log[k]) => SeqElems(log[k].module_names) \subseteq Keys(start_loaded))
          => /\ loaded_modules = start_loaded
             /\ reload_modules = start_reload

\* a second initialize that found every module registered has returned
C1_Witness ==
    /\ calls = 2 /\ op = "initialize" /\ pc = "idle" /\ result = "returned"
    /\ Len(start_loaded) >= 2
    /\ Len(log) > 3
    /\ \A k \in LogIdx : ~IsImport(log[k])
    /\ loaded_modules = start_loaded
    /\ reload_modules = start_reload

\* C2: every initialize call runs reload_all over the whole queue: when the
\* call has returned, every module of reload_modules without no_reload has
\* been re-executed by that call, also when the call imported nothing; when
\* a re-execution raised, every such module before the raising one has been.
C2_ReloadOnEveryInitialize ==
    (op = "initialize" /\ pc = "idle") =>
       /\ result = "returned" =>
             ReloadedMods = SelectSeq(reload_modules, Reloadable)
       /\ (result = "raised" /\ Len(log) > 0 /\ log[Len(log)].ev = "reload_raised") =>
             ReloadedMods = SelectSeq(SubSeq(reload_modules, 1, ridx), Reloadable)

\* a second initialize that imported nothing has re-executed the queue
C2_Witness ==
    /\ calls = 2 /\ op = "initialize" /\ pc = "idle" /\ result = "returned"
    /\ loaded_modules = start_loaded
    /\ Len(ReloadedMods) >= 2

\* the names of a level that the import loop has passed
Passed(f) ==
    {f.pairs[j].name : j \in 1 .. (IF f.phase = "import" THEN f.idx - 1 ELSE Len(f.pairs))}

\* C3: a name whose import raised ImportError or AttributeError is neither in
\* loaded_modules nor in reload_modules, the failure is not what ends the
\* call with an exception, and every name of a level that the import loop
\* has passed was import-attempted (or was registered already).
C3_ImportFailureSwallowed ==
    /\ \A k \in LogIdx :
          (IsImport(log[k]) /\ log[k].res = "None") =>
             /\ log[k].name \notin Keys(loaded_modules)
             /\ \A j \in 1 .. Len(reload_modules) : reload_modules[j].name # log[k].name
             /\ (k = Len(log) => result # "raised")
    /\ \A d \in 1 .. Len(stack) :
          \A n \in Passed(stack[d]) :
             \/ n \in Keys(start_loaded)
             \/ \E k \in LogIdx : IsImport(log[k]) /\ log[k].name = n

\* an import failed and a later name of the same level was imported
C3_Witness ==
    /\ pc = "import_modules"
    /\ Len(stack) = 1
    /\ Top(stack).phase = "recurse"
    /\ \E k \in LogIdx :
          /\ IsImport(log[k]) /\ log[k].res = "None"
          /\ k + 1 \in LogIdx /\ IsImport(log[k + 1]) /\ log[k + 1].res = "ok"
          /\ log[k].name = Top(stack).pairs[1].name
          /\ log[k + 1].name = Top(stack).pairs[2].name

\* C4: reload_all never re-executes a module that has the no_reload
\* attribute, and a module it avoided is still in loaded_modules and in
\* reload_modules.
C4_NoReloadRespected ==
    \A k \in LogIdx :
       /\ IsReload(log[k]) => ~HasNoReload(log[k].mod)
       /\ log[k].ev = "avoid_reload" =>
             /\ HasNoReload(log[k].mod)
             /\ log[k].mod \in SeqElems(reload_modules)
             /\ log[k].mod.name \in Keys(loaded_modules)
             /\ DictMod(loaded_modules, log[k].mod.name) = log[k].mod

\* reload_all has returned after avoiding one module and re-executing another
C4_Witness ==
    /\ pc = "idle" /\ result = "returned"
    /\ \E k \in LogIdx : log[k].ev = "avoid_reload"
    /\ \E k \in LogIdx : log[k].ev = "reload"

IsOkImport(e) == e.ev = "_import_module" /\ e.res = "ok"
IsReloadAll(e) == e.ev = "reload_all"

\* how far reload_all of the running call has gone through the queue
ReloadReached ==
    IF pc = "reload_all" THEN ridx - 1
    ELSE IF SelectSeq(log, IsReloadAll) = <<>> THEN 0
    ELSE IF result = "raised" THEN ridx
    ELSE Len(reload_modules)

\* C5: the reload queue is in the order of the first successful imports (the
\* order of the records of loaded_modules, each call appending its
\* successful imports in the order it made them), and reload_all re-executes
\* the reloadable modules in queue order.
C5_ReloadInImportOrder ==
    LET oks == SelectSeq(log, IsOkImport)
    IN  /\ Len(reload_modules) = Len(loaded_modules)
        /\ \A j \in 1 .. Len(reload_modules) : reload_modules[j] = loaded_modules[j].mod
        /\ Len(reload_modules) = Len(start_reload) + Len(oks)
        /\ SubSeq(reload_modules, 1, Len(start_reload)) = start_reload
        /\ \A j \in 1 .. Len(oks) : reload_modules[Len(start_reload) + j].name = oks[j].name
        /\ ReloadedMods = SelectSeq(SubSeq(reload_modules, 1, ReloadReached), Reloadable)

\* a call that imported something new has re-executed old and new modules
C5_Witness ==
    /\ pc = "idle" /\ result = "returned" /\ op = "initialize"
    /\ Len(start_reload) >= 1
    /\ Len(reload_modules) > Len(start_reload)
    /\ Len(ReloadedMods) >= 2
    /\ ~HasNoReload(reload_modules[Len(reload_modules)])

\* C6: an exception of a re-execution ends the call (reload_all and
\* initialize) with that exception, no module after the raising one is
\* re-executed in that call, and reload_all changes neither loaded_modules
\* nor reload_modules.
C6_ReloadFailureAborts ==
    /\ [](\A k \in LogIdx :
            log[k].ev = "reload_raised" =>
               /\ k = Len(log)
               /\ pc = "idle" /\ result = "raised"
               /\ log[k].mod = reload_modules[ridx]
               /\ ReloadedMods = SelectSeq(SubSeq(reload_modules, 1, ridx), Reloadable))
    /\ [][pc = "reload_all" =>
             /\ loaded_modules' = loaded_modules
             /\ reload_modules' = reload_modules]_vars

\* initialize ended by a raising re-execution with a reloadable module behind it
C6_Witness ==
    /\ pc = "idle" /\ result = "raised" /\ op = "initialize"
    /\ Len(log) > 0 /\ log[Len(log)].ev = "reload_raised"
    /\ \E j \in ridx + 1 .. Len(reload_modules) : ~HasNoReload(reload_modules[j])

RECURSIVE PairsTotal(_)
PairsTotal(lg) ==
    IF lg = <<>> THEN 0
    ELSE PairsTotal(SubSeq(lg, 1, Len(lg) - 1))
         + (IF IsCall(lg[Len(lg)]) THEN Len(lg[Len(lg)].pairs) ELSE 0)

\* C7: initialize creates the logger first, then runs import_modules on the
\* root with only_packages=True and the hint ['tpQtLib.core'], and calls
\* reload_all once, after the whole recursive walk (one recursive call per
\* pair of every level) has finished; nothing is imported after it.
C7_InitializeStepOrder ==
    op = "initialize" =>
       /\ Len(log) >= 1 => log[1].ev = "create_logger"
       /\ Len(log) >= 2 =>
             /\ IsCall(log[2])
             /\ log[2].module_name = RootPath
             /\ log[2].only_packages
             /\ log[2].order = <<tpQtLibStr \o <<".">> \o core>>
       /\ \A k \in LogIdx : k >= 2 => log[k].ev # "create_logger"
       /\ \A j, k \in LogIdx :
             (j < k /\ log[j].ev = "reload_all") =>
                log[k].ev \in {"reload", "reload_raised", "avoid_reload"}
       /\ \A k \in LogIdx :
             log[k].ev \in {"reload_all", "reload", "reload_raised", "avoid_reload"} =>
                /\ stack = <<>>
                /\ Len(SelectSeq(log, IsCall)) = 1 + PairsTotal(log)
                /\ \E j \in 1 .. k : log[j].ev = "reload_all"
       /\ (pc = "idle" /\ result = "returned") => \E k \in LogIdx : log[k].ev = "reload_all"

\* initialize has returned after a walk of several levels and a re-execution
C7_Witness ==
    /\ op = "initialize" /\ pc = "idle" /\ result = "returned"
    /\ Len(SelectSeq(log, IsCall)) >= 4
    /\ \E k \in LogIdx : log[k].ev = "reload"

coreName == tpQtLibStr \o <<".">> \o core
widgetsName == tpQtLibStr \o <<".">> \o widgets

\* the names _explore_package yields for the root directory
RootNames == {ModName(<<root_entries[k].m_name>>) : k \in 1 .. Len(root_entries)}

RootCallIdx == CHOOSE r \in LogIdx : IsCall(log[r]) /\ \A j \in 1 .. r - 1 : ~IsCall(log[j])

\* the outermost import_modules of the running call has returned
WalkReturned ==
    \/ pc \in {"init37", "reload_all"}
    \/ /\ pc = "idle"
       /\ Len(log) > 0
       /\ \/ result = "returned"
          \/ log[Len(log)].ev = "reload_raised"

\* C9: a root level that discovers tpQtLib.core and tpQtLib.widgets under
\* the hint ['tpQtLib.core'] imports tpQtLib.core first and tpQtLib.widgets
\* second, and only then calls import_modules recursively, with
\* only_packages=False, on the path of tpQtLib.core and then on the path of
\* tpQtLib.widgets.
C9_CoreWidgetsScenario ==
    ((\E r \in LogIdx : IsCall(log[r]))
       /\ log[RootCallIdx].order = <<coreName>>
       /\ SeqElems(log[RootCallIdx].names) = {coreName, widgetsName}) =>
       LET r == RootCallIdx
           later == {k \in LogIdx : k > r /\ IsCall(log[k])}
           onCore == {k \in later : log[k].module_name = DirPath(<<core>>)}
           onWidgets == {k \in later : log[k].module_name = DirPath(<<widgets>>)}
       IN  /\ log[r].module_names = <<coreName, widgetsName>>
           /\ log[r].pairs = <<[name |-> coreName, path |-> DirPath(<<core>>)],
                               [name |-> widgetsName, path |-> DirPath(<<widgets>>)]>>
           /\ \A k \in LogIdx :
                 (IsImport(log[k]) /\ log[k].name = widgetsName
                    /\ coreName \notin Keys(start_loaded)) =>
                    \E j \in 1 .. k - 1 : IsImport(log[j]) /\ log[j].name = coreName
           /\ \A k \in later :
                 /\ ~log[k].only_packages
                 /\ \A j \in LogIdx :
                       (IsImport(log[j]) /\ log[j].name \in {coreName, widgetsName}) => j < k
           /\ \A k \in onWidgets : \E j \in onCore : j < k
           /\ Cardinality(onCore) <= 1 /\ Cardinality(onWidgets) <= 1
           /\ WalkReturned => (onCore # {} /\ onWidgets # {})

\* the walk of a root listed as widgets, core has returned
C9_Witness ==
    /\ op = "initialize" /\ WalkReturned
    /\ root_entries = <<Entry(widgets, TRUE), Entry(core, TRUE)>>
    /\ \E k \in LogIdx : IsImport(log[k]) /\ log[k].name = widgetsName
    /\ \E k \in LogIdx : IsCall(log[k]) /\ log[k].module_name = DirPath(<<widgets>>)

(***************************************************************************)
(* The ordering rule as the specification words it: one insertion cursor;  *)
(* an exact match goes to the cursor position and the cursor advances; a   *)
(* suffix match goes right after the cursor position and the cursor        *)
(* advances; a substring match goes to the end.                            *)
(***************************************************************************)
RuleStep(st, o, n) ==
    IF n = o
    THEN [list |-> ListInsert(st.list, st.cursor, n), cursor |-> st.cursor + 1]
    ELSE IF EndsWith(n, o)
    THEN [list |-> ListInsert(st.list, st.cursor + 1, n), cursor |-> st.cursor + 1]
    ELSE IF Contains(n, o)
    THEN [list |-> Append(st.list, n), cursor |-> st.cursor]
    ELSE st

RECURSIVE RuleScanNames(_, _, _, _)
RuleScanNames(st, o, names, k) ==
    IF k > Len(names) THEN st
    ELSE RuleScanNames(RuleStep(st, o, names[k]), o, names, k + 1)

RECURSIVE RuleScanOrder(_, _, _, _)
RuleScanOrder(st, order, names, h) ==
    IF h > Len(order) THEN st
    ELSE RuleScanOrder(RuleScanNames(st, order[h], names, 1), order, names, h + 1)

RuleOrderedNames(order, names) ==
    RuleScanOrder([list |-> <<>>, cursor |-> 0], order, names, 1).list

\* C10: the ordered list import_modules builds before it appends the
\* discovery list equals the result of the stated rule.
C10_OrderedNamesFollowRule ==
    ordering.done => ordering.ordered_names = RuleOrderedNames(order_arg, names_arg)

(***************************************************************************)
(* The final order of one level (lines 117-123), on the drawn inputs.      *)
(***************************************************************************)
\* how the loop of lines 103-115 can match name n against the hint list
MatchesExact(n) == \E h \in 1 .. Len(order_arg) : n = order_arg[h]
MatchesSuffix(n) == \E h \in 1 .. Len(order_arg) : EndsWith(n, order_arg[h])
MatchesSubstring(n) == \E h \in 1 .. Len(order_arg) : Contains(n, order_arg[h])
MatchesSomeHint(n) == MatchesExact(n) \/ MatchesSuffix(n) \/ MatchesSubstring(n)

\* the positions at which x stands in the list s
Positions(s, x) == {k \in 1 .. Len(s) : s[k] = x}

\* x stands in s, and before every occurrence of y
Before(s, x, y) ==
    /\ Positions(s, x) # {}
    /\ \A a \in Positions(s, x) : \A b \in Positions(s, y) : a < b

\* C11: in the final import order of one level every discovered name that
\* matches some hint (exactly, as a suffix or as a substring) comes before
\* every discovered name that matches no hint, and the names that match no
\* hint keep their relative discovery order.
C11_HintedBeforeUnhinted ==
    ordering.done =>
       \A a \in 1 .. Len(names_arg) : \A b \in 1 .. Len(names_arg) :
          LET x == names_arg[a]
              y == names_arg[b]
          IN  /\ (MatchesSomeHint(x) /\ ~MatchesSomeHint(y)) =>
                    (Before(ordering.module_names, x, y)
                       /\ Positions(ordering.module_names, y) # {})
              /\ (~MatchesSomeHint(x) /\ ~MatchesSomeHint(y) /\ a < b) =>
                    (Before(ordering.module_names, x, y)
                       /\ Positions(ordering.module_names, y) # {})

\* a hinted name discovered between two unhinted ones has been ordered
C11_Witness ==
    /\ ordering.done
    /\ order_arg = <<ext>>
    /\ names_arg = <<Dotted(pkg, widgets), Dotted(pkg, core_ext), Dotted(pkg, utils)>>
    /\ ordering.module_names =
          <<Dotted(pkg, core_ext), Dotted(pkg, widgets), Dotted(pkg, utils)>>

\* n matches hints, but none of them exactly or as a suffix
MatchesOnlySubstring(n) ==
    MatchesSubstring(n) /\ ~MatchesExact(n) /\ ~MatchesSuffix(n)

\* C12: substring matching is the lowest priority: in the final import order
\* of one level a name that matches hints only as a substring never comes
\* before a name that matches some hint exactly or as a suffix.
C12_SubstringLowestPriority ==
    ordering.done =>
       \A a \in 1 .. Len(names_arg) : \A b \in 1 .. Len(names_arg) :
          LET x == names_arg[a]
              y == names_arg[b]
          IN  (MatchesOnlySubstring(x) /\ (MatchesExact(y) \/ MatchesSuffix(y))) =>
                 Before(ordering.module_names, y, x)

\* the position of the first occurrence of x in s
FirstPos(s, x) == CHOOSE k \in Positions(s, x) : \A j \in Positions(s, x) : k <= j

\* C13: for every hint list the final name list of one level is a
\* permutation of the discovered names: every discovered name exactly once
\* and nothing else, in the order of the first occurrences in the
\* hint-ordered list followed by the discovery list.
C13_ModuleNamesPermutation ==
    ordering.done =>
       LET mn == ordering.module_names
           full == ordering.ordered_names \o names_arg
       IN  /\ Len(mn) = Len(names_arg)
           /\ \A k \in 1 .. Len(names_arg) :
                 Cardinality(Positions(mn, names_arg[k])) = 1
           /\ \A k \in 1 .. Len(mn) : Positions(names_arg, mn[k]) # {}
           /\ \A a \in 1 .. Len(mn) : \A b \in 1 .. Len(mn) :
                 (a < b) => FirstPos(full, mn[a]) < FirstPos(full, mn[b])

\* a hinted name discovered last has been moved to the front, and its second
\* occurrence removed
C13_Witness ==
    /\ ordering.done
    /\ order_arg = <<core>>
    /\ names_arg = <<Dotted(pkg, utils), Dotted(pkg, core)>>
    /\ ordering.ordered_names = <<Dotted(pkg, core)>>
    /\ ordering.module_names = <<Dotted(pkg, core), Dotted(pkg, utils)>>

\* C14: the ordered, deduplicated result of one level is a list of
\* (qualified_name, path) pairs in which every name is paired with the path
\* _explore_package discovered for that same name, for every hint list.
C14_NamesPairedWithOwnPaths ==
    ordering.done =>
       LET pairs == Zip(ordering.module_names, ordering.module_paths)
       IN  /\ Len(pairs) = Len(names_arg)
           /\ \A k \in 1 .. Len(pairs) : pairs[k].path = PathOfName(pairs[k].name)

(***************************************************************************)
(* The recursion of lines 139-145, over the log of the running call.       *)
(***************************************************************************)
\* the path _explore_package discovered for the qualified name n
DiscoveredPath(n) == DirPath(CHOOSE q \in Nodes : ModName(q) = n)

\* the hint line 141-144 passes for the entry named n
HintFor(n) ==
    IF n \in Keys(loaded_modules) /\ HasOrder(DictMod(loaded_modules, n))
    THEN ModOrder(DictMod(loaded_modules, n))
    ELSE <<>>

\* the recursive calls made after the call of log position r on the path p
RecursionsInto(r, p) ==
    {j \in LogIdx : j > r /\ IsCall(log[j]) /\ log[j].module_name = p}

\* C15: once the walk has returned, every level has recursed exactly once
\* into every entry it discovered, on that entry's own discovered path and
\* with only_packages=False, whatever the outcome of the entry's import; the
\* hint is the registered module's order attribute when the name is
\* registered and has one, and the empty list otherwise.
C15_RecursesOnceIntoEveryEntry ==
    WalkReturned =>
       \A r \in LogIdx :
          IsCall(log[r]) =>
             \A k \in 1 .. Len(log[r].names) :
                LET n == log[r].names[k]
                    into == RecursionsInto(r, DiscoveredPath(n))
                IN  /\ Cardinality(into) = 1
                    /\ \A j \in into :
                          ~log[j].only_packages /\ log[j].order = HintFor(n)

\* C16: with an empty hint list the import order of a level is exactly the
\* discovery order: the loop of lines 131-137 iterates over the discovered
\* (name, path) pairs as _explore_package returned them.
C16_EmptyHintKeepsDiscoveryOrder ==
    (ordering.done /\ order_arg = <<>>) =>
       /\ ordering.ordered_names = <<>>
       /\ ordering.module_names = names_arg
       /\ Zip(ordering.module_names, ordering.module_paths) =
             [k \in 1 .. Len(names_arg) |->
                [name |-> names_arg[k], path |-> PathOfName(names_arg[k])]]

\* three names have been ordered under the empty hint list
C16_Witness ==
    /\ ordering.done
    /\ order_arg = <<>>
    /\ names_arg = <<Dotted(pkg, utils), Dotted(pkg, core_ext), Dotted(pkg, core)>>
    /\ ordering.module_names = names_arg

\* the scenario of hint list ['core'] and discovered names
\* ['pkg.core', 'pkg.utils', 'pkg.core_ext'], after the ordering
CoreScenario ==
    /\ ordering.done
    /\ order_arg = <<core>>
    /\ names_arg = <<Dotted(pkg, core), Dotted(pkg, utils), Dotted(pkg, core_ext)>>

\* C17: for hint list ['core'] and discovered names ['pkg.core', 'pkg.utils',
\* 'pkg.core_ext'] pkg.core is the first name of the final import order.
C17_CoreFirstInScenario ==
    CoreScenario => ordering.module_names[1] = Dotted(pkg, core)

\* the scenario has been ordered and lists all three names
C17_Witness ==
    /\ CoreScenario
    /\ Len(ordering.module_names) = 3
    /\ ordering.module_names[1] = Dotted(pkg, core)

\* C18 as stated: in the same scenario pkg.core_ext is handled by the
\* substring branch and ends up at the end of the final import order, after
\* the unhinted pkg.utils.
C18_CoreExtLast ==
    CoreScenario =>
       /\ MatchesOnlySubstring(Dotted(pkg, core_ext))
       /\ ordering.module_names[Len(ordering.module_names)] = Dotted(pkg, core_ext)
       /\ Before(ordering.module_names, Dotted(pkg, utils), Dotted(pkg, core_ext))

\* C18 amended: in the same scenario pkg.core_ext is handled by the
\* substring branch and ends up at the end of the hint-ordered list, so that
\* the final import order is pkg.core, pkg.core_ext, pkg.utils: pkg.core_ext
\* stands before the unhinted pkg.utils.
C18_CoreExtBeforeUnhinted ==
    CoreScenario =>
       /\ MatchesOnlySubstring(Dotted(pkg, core_ext))
       /\ ordering.ordered_names = <<Dotted(pkg, core), Dotted(pkg, core_ext)>>
       /\ ordering.module_names =
             <<Dotted(pkg, core), Dotted(pkg, core_ext), Dotted(pkg, utils)>>

\* the scenario has been ordered and pkg.core_ext went through line 114
C18_Witness ==
    /\ CoreScenario
    /\ ordering.ordered_names[Len(ordering.ordered_names)] = Dotted(pkg, core_ext)
    /\ ordering.module_names[2] = Dotted(pkg, core_ext)

\* the positions of the log at which the import of name n was attempted
AttemptsOf(n) == {k \in LogIdx : IsImport(log[k]) /\ log[k].name = n}

\* C19: during one top-level call, its recursive calls included, the import
\* of a discovered name is never attempted twice, and once the walk has
\* returned every discovered name that was not registered has been attempted
\* exactly once; over the whole process a module record is created at most once
\* per qualified name: the registry and the reload queue hold every module
\* once.
C19_ImportAttemptedOnce ==
    /\ \A k \in LogIdx :
          IsImport(log[k]) => Cardinality(AttemptsOf(log[k].name)) = 1
    /\ WalkReturned =>
          \A r \in LogIdx :
             IsCall(log[r]) =>
                \A k \in 1 .. Len(log[r].names) :
                   LET n == log[r].names[k]
                   IN  Cardinality(AttemptsOf(n)) =
                          IF n \in Keys(start_loaded) THEN 0 ELSE 1
    /\ Len(reload_modules) = Len(loaded_modules)
    /\ \A a \in 1 .. Len(reload_modules) : \A b \in 1 .. Len(reload_modules) :
          reload_modules[a].name = reload_modules[b].name => a = b
    /\ \A a \in 1 .. Len(loaded_modules) : \A b \in 1 .. Len(loaded_modules) :
          loaded_modules[a].name = loaded_modules[b].name => a = b

\* a second top-level call has walked a root with a registered name, which it
\* skipped, and an unregistered one, which it attempted
C19_Witness ==
    /\ calls = 2
    /\ op = "import_modules"
    /\ result = "returned"
    /\ \E k \in 1 .. Len(log[1].names) : log[1].names[k] \in Keys(start_loaded)
    /\ \E k \in 1 .. Len(log[1].names) :
          /\ log[1].names[k] \notin Keys(start_loaded)
          /\ Cardinality(AttemptsOf(log[1].names[k])) = 1

(***************************************************************************)
(* What _explore_package returns, over the calls of the log.               *)
(***************************************************************************)
\* the qualified name of the child c of the directory d
ChildName(d, c) == ModName(Append(d.parts, c.m_name))

\* the qualified names of the plain modules that lie directly in the root
RootPlainModules ==
    {ModName(<<root_entries[k].m_name>>) :
        k \in {j \in 1 .. Len(root_entries) : ~root_entries[j].is_pkg}}

\* C20: _explore_package returns, in listing order, exactly the immediate
\* children of the directory that are packages when only_packages is True,
\* and every immediate child, package or module, when it is False;
\* consequently initialize never imports a plain module that lies directly
\* in the root directory.
C20_ExploreImmediateChildren ==
    /\ \A r \in LogIdx :
          IsCall(log[r]) =>
             LET d == log[r].module_name
                 ch == IterModules(d)
                 wanted == {k \in 1 .. Len(ch) : log[r].only_packages => ch[k].is_pkg}
                 names == log[r].names
             IN  /\ Len(names) = Cardinality(wanted)
                 /\ \A k \in wanted : Positions(names, ChildName(d, ch[k])) # {}
                 /\ \A a \in wanted : \A b \in wanted :
                       (a < b) => Before(names, ChildName(d, ch[a]), ChildName(d, ch[b]))
    /\ op = "initialize" =>
          \A k \in LogIdx : IsImport(log[k]) => log[k].name \notin RootPlainModules

\* initialize has walked a root that holds the plain module version next to
\* the package widgets: the root level lists widgets only, the level of
\* widgets lists its plain module message
C20_Witness ==
    /\ op = "initialize" /\ WalkReturned
    /\ root_entries = <<Entry(version, FALSE), Entry(widgets, TRUE)>>
    /\ log[RootCallIdx].only_packages
    /\ log[RootCallIdx].names = <<widgetsName>>
    /\ \E r \in LogIdx :
          /\ IsCall(log[r]) /\ ~log[r].only_packages
          /\ log[r].names = <<ModName(<<widgets, message>>)>>
    /\ \E k \in LogIdx : IsImport(log[k]) /\ log[k].name = ModName(<<widgets, message>>)

\* 'tpQtLib' and the components of a path below the root, joined by dots
DottedName(parts) == JoinParts(<<tpQtLibStr>> \o parts, ".")

\* C21: for an entry at any depth below the root the qualified name that
\* _explore_package produces is 'tpQtLib' followed by the components of the
\* entry's path relative to the root joined by dots only, whatever the
\* platform's path separator.
C21_QualifiedNamesDotted ==
    \A r \in LogIdx :
       IsCall(log[r]) =>
          LET d == log[r].module_name
              ch == IterModules(d)
              wanted == {k \in 1 .. Len(ch) : log[r].only_packages => ch[k].is_pkg}
          IN  \A k \in wanted :
                 Positions(log[r].names, DottedName(Append(d.parts, ch[k].m_name))) # {}

(***************************************************************************)
(* The registry over the whole process.                                    *)
(***************************************************************************)
\* C22: loaded_modules only grows: no step of initialize, import_modules or
\* reload_all removes the record of a qualified name or replaces its module
\* handle or its path.
C22_RegistryOnlyGrows ==
    [][\A k \in 1 .. Len(loaded_modules) :
          \E j \in 1 .. Len(loaded_modules') :
             /\ loaded_modules'[j].name = loaded_modules[k].name
             /\ loaded_modules'[j].dir = loaded_modules[k].dir
             /\ loaded_modules'[j].mod = loaded_modules[k].mod]_vars

\* a second initialize has returned after adding a record to a registry that
\* already held one, and after reload_all ran over both
C22_Witness ==
    /\ calls = 2
    /\ op = "initialize"
    /\ result = "returned"
    /\ Len(start_loaded) >= 1
    /\ Len(loaded_modules) > Len(start_loaded)
    /\ \E k \in LogIdx : log[k].ev = "reload"

\* C23: the process-wide logger is created once: over any number of
\* initialize calls the instance created by the first call stays the
\* module-level logger and no further instance is constructed.
C23_LoggerCreatedOnce ==
    [][logger # 0 => logger' = logger]_vars

(***************************************************************************)
(* Termination of the walk.                                                *)
(***************************************************************************)
\* an uncaught exception has left the running call
Raised == \E k \in LogIdx : log[k].ev = "reload_raised" \/
                            (IsImport(log[k]) /\ log[k].res = "raised")

\* C24: the recursive import_modules walk terminates: each recursive call
\* works on a path one level below its caller's or finds no entries, and a
\* started initialize always comes to its end, by returning when no import
\* and no reload raised an uncaught exception.
C24_InitializeTerminates ==
    /\ [][Len(stack') > Len(stack) =>
             LET e == log'[Len(log')]
             IN  /\ IsCall(e)
                 /\ \/ e.names = <<>>
                    \/ e.module_name.abs /\ Len(e.module_name.parts) = Len(stack)]_vars
    /\ [](pc = "idle" /\ op = "initialize" /\ ~Raised => result = "returned")
    /\ (pc = "init35") ~> (pc = "idle" /\ (Raised \/ result = "returned"))

\* an initialize whose walk went two levels deep has returned
C24_Witness ==
    /\ op = "initialize"
    /\ pc = "idle"
    /\ result = "returned"
    /\ \E k \in LogIdx : IsCall(log[k]) /\ log[k].module_name = DirPath(<<widgets>>)
                          /\ log[k].names # <<>>
    /\ \E k \in LogIdx : IsCall(log[k]) /\ ~log[k].module_name.abs

(***************************************************************************)
(* Resource.generate_resources_file.                                       *)
(***************************************************************************)
\* C25: generate_resources_file raises RuntimeError whenever the resources
\* folder it is asked to use does not exist, instead of degrading to another
\* folder or returning silently.
C25_MissingFolderRaises ==
    (res_call.done /\ res_call.resources_folder # "None"
       /\ ~Exists(res_call.fs, res_call.resources_folder)) =>
       res_call.outcome = "RuntimeError"

(***************************************************************************)
(* find_coordinates_inside_screen.                                         *)
(***************************************************************************)
\* the rectangle of the call, put at (x, y), lies completely inside monitor m
RectInside(c, x, y, m) ==
    /\ m.x1 <= x /\ x + c.width <= m.x2
    /\ m.y1 <= y /\ y + c.height <= m.y2

\* C26: when at least one active monitor is reported the returned position
\* puts the width x height rectangle completely inside one monitor's area, for
\* every input position and every padding >= 0; with no monitor information
\* or on a platform other than Windows the position is returned unchanged.
C26_ResultInsideOneMonitor ==
    scr_call.done =>
       IF scr_call.os_name = "nt" /\ scr_call.areas # <<>>
       THEN \E k \in 1 .. Len(scr_call.areas) :
               RectInside(scr_call, scr_call.rx, scr_call.ry, scr_call.areas[k])
       ELSE scr_call.rx = scr_call.x /\ scr_call.ry = scr_call.y

\* C27: after any sequence of initialize, import_modules and reload_all calls
\* reload_modules has no duplicates, has the length of loaded_modules, and
\* its i-th element is the module handle of the i-th record inserted into
\* loaded_modules.
C27_ReloadQueueMirrorsRegistry ==
    /\ Len(reload_modules) = Len(loaded_modules)
    /\ \A i \in 1 .. Len(reload_modules) :
          /\ i <= Len(loaded_modules)
          /\ reload_modules[i] = loaded_modules[i].mod
          /\ \A j \in 1 .. Len(reload_modules) :
                reload_modules[j] = reload_modules[i] => j = i

\* a direct reload_all has run over the two modules that an earlier
\* initialize registered
C27_Witness ==
    /\ calls = 2
    /\ op = "reload_all"
    /\ result = "returned"
    /\ Len(reload_modules) = 2
    /\ Len(loaded_modules) = 2

(***************************************************************************)
(* SelectFolderButton._open_folder_browser_dialog.                         *)
(***************************************************************************)
\* the positions at which the button emitted the signal sig
Emissions(sig) ==
    {k \in 1 .. Len(folder_btn.emitted) : folder_btn.emitted[k].sig = sig}

\* C28: beforeNewDirectory is emitted before the dialog is shown; when the
\* user picks an existing folder in Maya, directoryChanged is emitted with
\* that folder and the cleaned full path of the folder is returned; when the
\* dialog is cancelled no directoryChanged is emitted and nothing is
\* returned; in any other DCC NotImplementedError is raised.
C28_FolderDialogContract ==
    /\ \A k \in Emissions("fileDialog2") :
          \E j \in Emissions("beforeNewDirectory") : j < k
    /\ folder_btn.done =>
          /\ Emissions("beforeNewDirectory") # {}
          /\ folder_btn.dcc # "maya" => folder_btn.outcome = "NotImplementedError"
          /\ (folder_btn.dcc = "maya" /\ folder_btn.result = <<>>) =>
                (Emissions("directoryChanged") = {} /\ folder_btn.outcome = "None")
          /\ (folder_btn.dcc = "maya" /\ folder_btn.result # <<>>
                /\ folder_btn.result[1] \in folder_btn.dirs) =>
                /\ \E k \in Emissions("directoryChanged") :
                      folder_btn.emitted[k].arg = folder_btn.result[1]
                /\ folder_btn.outcome = "path"
                /\ folder_btn.ret = CleanPath(folder_btn.result[1])

(***************************************************************************)
(* BaseMessage.theme_type.                                                 *)
(***************************************************************************)
\* C29: after any sequence of assignments to theme_type, the type methods
\* included, the stored type is one of info, success, warning, error;
\* assigning any other value, MessageTypes.LOADING included, raises
\* ValueError and leaves the stored type and the icon unchanged.
C29_ThemeTypeSupportedOnly ==
    /\ [](theme._type \in SupportedTypes)
    /\ [][(theme'.n > theme.n /\ theme'.asked \notin SupportedTypes) =>
             /\ theme'.outcome = "ValueError"
             /\ theme'._type = theme._type
             /\ theme'.icon = theme.icon]_vars
    /\ [][(theme'.n > theme.n /\ theme'.asked \in SupportedTypes) =>
             theme'.outcome = "ok"]_vars

\* MessageTypes.LOADING has been assigned to a message that error() had
\* switched to the error type
C29_Witness ==
    /\ theme.n >= 2
    /\ theme.asked = "loading"
    /\ theme.outcome = "ValueError"
    /\ theme._type = "error"
    /\ theme.icon.pixmap = "error"

(***************************************************************************)
(* FileListWidget selection modes.                                         *)
(***************************************************************************)
SignalsOf(emitted) == { emitted[i].signal : i \in 1..Len(emitted) }

FileNames(selected) ==
    LET NotDirectory(x) == x.type # 0
        items == SelectSeq(selected, NotDirectory)
    IN  [i \in 1..Len(items) |-> items[i].text]

\* C30: before setExtendedSelection a selection change with a non-empty
\* selection emits folder_selected (first item of type 0) or file_selected
\* (first item of type 1) with the first selected item's text and never
\* files_selected; once setExtendedSelection has been called every selection
\* change emits files_selected with the names of exactly the selected items
\* that are not directories, and neither folder_selected nor file_selected.
C30_TwoSelectionModes ==
    [][file_list'.selected # file_list.selected =>
        LET sel == file_list'.selected
            out == file_list'.emitted
        IN  IF file_list.mode = "single"
            THEN /\ "files_selected" \notin SignalsOf(out)
                 /\ (sel # << >> /\ sel[1].type = 0) =>
                        out = << [signal |-> "folder_selected", arg |-> sel[1].text] >>
                 /\ (sel # << >> /\ sel[1].type = 1) =>
                        out = << [signal |-> "file_selected", arg |-> sel[1].text] >>
            ELSE out = << [signal |-> "files_selected", arg |-> FileNames(sel)] >>
    ]_vars

\* in extended mode a directory and two files are selected and
\* files_selected carries the two file names
C30_Witness ==
    /\ file_list.mode = "extended"
    /\ file_list.outcome = "changed"
    /\ Len(file_list.selected) = 3
    /\ file_list.selected[1].type = 0
    /\ file_list.emitted = << [signal |-> "files_selected", arg |-> << "a.ma", "b.ma" >>] >>

====
